---- MODULE Spec2Model ----
(***************************************************************************)
(* MetadataVersioned (packages/types/src/metadata/MetadataVersioned.ts):   *)
(* the versioned runtime metadata, its per-version accessors asV9..asV15,  *)
(* asLatest, the #converted memo table, asCallsOnly, getUniqTypes, toJSON. *)
(*                                                                         *)
(* A representation (a decoded MetadataV<n>) is modelled as a term: the    *)
(* version of its shape and the history of the conversion functions that   *)
(* produced it from the payload that was decoded.  The conversion          *)
(* functions themselves (toV10..toV15, toLatest, toCallsOnly) live outside *)
(* MetadataVersioned.ts.                                                   *)
(***************************************************************************)
EXTENDS Integers, Sequences, FiniteSets, TLC

KNOWN_VERSIONS == <<15, 14, 13, 12, 11, 10, 9>>

LATEST_VERSION == KNOWN_VERSIONS[1]

TO_CALLS_VERSION_latest == LATEST_VERSION

TO_CALLS_VERSION == 14

\* the 'latest' member of the MetaVersions key type
latest == 0

MetaAll == {KNOWN_VERSIONS[i] : i \in DOMAIN KNOWN_VERSIONS}

MetaVersions == (MetaAll \ {9}) \cup {latest}

MagicNumber == "meta"

\* number of MetadataVersioned instances alive at once
MaxRecords == 3

\* cap of the per-(record, target) count of conversion calls
MaxInvocations == 2

(***************************************************************************)
(* Values                                                                  *)
(***************************************************************************)
NoRep == [ver |-> 0, hist |-> <<>>]

NoErr == [kind |-> "none", from |-> 0, to |-> 0]

EmptyMap == [k \in {} |-> NoRep]

\* the payload as decoded: MetadataAll with index s and a V<s> value
Decoded(s) == [index |-> s, value |-> [ver |-> s, hist |-> <<>>]]

\* one observable step of a call
Ev(e, k, input, ctx) == [ev |-> e, key |-> k, input |-> input, ctx |-> ctx]

Ret(val, conv, trace) ==
  [ok |-> TRUE, val |-> val, err |-> NoErr, conv |-> conv, trace |-> trace]

Thr(err, conv, trace) ==
  [ok |-> FALSE, val |-> NoRep, err |-> err, conv |-> conv, trace |-> trace]

(***************************************************************************)
(* Conversion functions (imported by MetadataVersioned.ts)                 *)
(***************************************************************************)
Upgraded(n, input, metaVersion) ==
  [ver |-> n,
   hist |-> Append(input.hist,
                   [fn |-> "toV", to |-> n, from |-> input.ver, ctx |-> metaVersion])]

toV10(input, metaVersion) == Upgraded(10, input, metaVersion)

toV11(input, metaVersion) == Upgraded(11, input, metaVersion)

toV12(input, metaVersion) == Upgraded(12, input, metaVersion)

toV13(input, metaVersion) == Upgraded(13, input, metaVersion)

toV14(input, metaVersion) == Upgraded(14, input, metaVersion)

toV15(input, metaVersion) == Upgraded(15, input, metaVersion)

\* MetadataLatest is the V15 shape: the result is structurally its input
toLatest(input, metaVersion) == input

toCallsOnly(input) ==
  [ver |-> input.ver,
   hist |-> Append(input.hist,
                   [fn |-> "toCallsOnly", to |-> input.ver, from |-> input.ver, ctx |-> 0])]

\* registry.createTypeUnsafe('MetadataAll', [value, index])
createMetadataAll(value, index) ==
  [index |-> index, value |-> [value EXCEPT !.ver = index]]

\* getUniqTypes(registry, latest, throwError) of ./util
utilGetUniqTypes(reg, input, throwError) ==
  IF throwError /\ reg.unresolved
    THEN [ok |-> FALSE, val |-> NoRep,
          err |-> [kind |-> "unresolved", from |-> 0, to |-> 0]]
    ELSE [ok |-> TRUE, val |-> input, err |-> NoErr]

(***************************************************************************)
(* MetadataVersioned                                                       *)
(***************************************************************************)
\* records: the instances; invoked: the conversion calls made for each;
\* registry: the registry every instance is built on; last: the last call
VARIABLES records, invoked, registry, last

\* new MetadataVersioned(registry, { magicNumber, metadata })
NewMetadataVersioned(magicNumber, meta) ==
  [magicNumber |-> magicNumber, metadata |-> meta, converted |-> EmptyMap]

metadata(this) == this.metadata

version(this) == metadata(this).index

assertVersion_offByOne(this, v) ==
  IF version(this) > v + 1
    THEN [threw |-> TRUE, eq |-> FALSE,
          err |-> [kind |-> "Cannot convert metadata", from |-> version(this), to |-> v]]
    ELSE [threw |-> FALSE, eq |-> (version(this) = v), err |-> NoErr]

assertVersion_neverEqual(this, v) ==
  IF version(this) > v
    THEN [threw |-> TRUE, eq |-> FALSE,
          err |-> [kind |-> "Cannot convert metadata", from |-> version(this), to |-> v]]
    ELSE [threw |-> FALSE, eq |-> FALSE, err |-> NoErr]

assertVersion_reversed(this, v) ==
  IF version(this) < v
    THEN [threw |-> TRUE, eq |-> FALSE,
          err |-> [kind |-> "Cannot convert metadata", from |-> version(this), to |-> v]]
    ELSE [threw |-> FALSE, eq |-> (version(this) = v), err |-> NoErr]

assertVersion(this, v) ==
  IF version(this) > v
    THEN [threw |-> TRUE, eq |-> FALSE,
          err |-> [kind |-> "Cannot convert metadata", from |-> version(this), to |-> v]]
    ELSE [threw |-> FALSE, eq |-> (version(this) = v), err |-> NoErr]

fromPrev_copyPaste(v, input, metaVersion) ==
  CASE v = 10 -> toV10(input, metaVersion)
    [] v = 11 -> toV11(input, metaVersion)
    [] v = 12 -> toV12(input, metaVersion)
    [] v = 13 -> toV12(input, metaVersion)
    [] v = 14 -> toV14(input, metaVersion)
    [] v = 15 -> toV15(input, metaVersion)
    [] v = latest -> toLatest(input, metaVersion)

\* the conversion each accessor hands to #getVersion
fromPrev(v, input, metaVersion) ==
  CASE v = 10 -> toV10(input, metaVersion)
    [] v = 11 -> toV11(input, metaVersion)
    [] v = 12 -> toV12(input, metaVersion)
    [] v = 13 -> toV13(input, metaVersion)
    [] v = 14 -> toV14(input, metaVersion)
    [] v = 15 -> toV15(input, metaVersion)
    [] v = latest -> toLatest(input, metaVersion)

asV9(this, conv) ==
  LET a == assertVersion(this, 9)
      t == <<Ev("assert", 9, NoRep, version(this))>>
  IN IF a.threw
       THEN Thr(a.err, conv, t)
       ELSE Ret(metadata(this).value, conv, Append(t, Ev("native", 9, NoRep, 0)))

hasConverted_never(conv, v) == FALSE

\* this.#converted.has(version)
hasConverted(conv, v) == v \in DOMAIN conv

MapSet_replace(conv, k, val) == [x \in {k} |-> val]

\* this.#converted.set(version, val)
MapSet(conv, k, val) ==
  [x \in DOMAIN conv \cup {k} |-> IF x = k THEN val ELSE conv[x]]

asPrevOf_secondNewest(v) == IF v = latest THEN KNOWN_VERSIONS[2] ELSE v - 1

\* the version of the accessor asPrev names
asPrevOf(v) == IF v = latest THEN LATEST_VERSION ELSE v - 1

metaVersionArg_ofPrev(this, v) == IF v = latest THEN LATEST_VERSION ELSE v - 1

\* the third argument handed to fromPrev
metaVersionArg(this, v) == version(this)

\* fromPrev(this.registry, input, this.version): returns, or raises when the
\* conversion to v cannot be done on this registry
callFromPrev(v, input, metaVersion) ==
  IF v \in registry.throws
    THEN [ok |-> FALSE, val |-> NoRep,
          err |-> [kind |-> "conversion failed", from |-> input.ver, to |-> v]]
    ELSE [ok |-> TRUE, val |-> fromPrev(v, input, metaVersion), err |-> NoErr]

RECURSIVE getVersion(_, _, _)
RECURSIVE asV(_, _, _)

getVersion_cacheFirst(this, conv, v) ==
  IF hasConverted(conv, v)
    THEN Ret(conv[v], conv, <<Ev("has", v, NoRep, 0), Ev("get", v, NoRep, 0)>>)
    ELSE
  LET a == IF v # latest THEN assertVersion(this, v)
                         ELSE [threw |-> FALSE, eq |-> FALSE, err |-> NoErr]
      t0 == IF v # latest THEN <<Ev("assert", v, NoRep, version(this))>> ELSE <<>>
  IN IF a.threw THEN Thr(a.err, conv, t0)
     ELSE IF a.eq THEN Ret(metadata(this).value, conv, Append(t0, Ev("native", v, NoRep, 0)))
     ELSE
       LET t1 == Append(t0, Ev("has", v, NoRep, 0))
       IN IF ~hasConverted(conv, v)
            THEN LET p == asV(this, conv, asPrevOf(v))
                 IN IF ~p.ok
                      THEN Thr(p.err, p.conv, t1 \o p.trace)
                      ELSE LET f == callFromPrev(v, p.val, metaVersionArg(this, v))
                               c2 == MapSet(p.conv, v, f.val)
                               t2 == t1 \o p.trace \o
                                     <<Ev("call", v, p.val, metaVersionArg(this, v))>>
                           IN IF ~f.ok
                                THEN Thr(f.err, p.conv, t2)
                                ELSE Ret(c2[v], c2,
                                         t2 \o <<Ev("set", v, NoRep, 0),
                                                 Ev("get", v, NoRep, 0)>>)
            ELSE Ret(conv[v], conv, Append(t1, Ev("get", v, NoRep, 0)))

getVersion_storeOnThrow(this, conv, v) ==
  LET a == IF v # latest THEN assertVersion(this, v)
                         ELSE [threw |-> FALSE, eq |-> FALSE, err |-> NoErr]
      t0 == IF v # latest THEN <<Ev("assert", v, NoRep, version(this))>> ELSE <<>>
  IN IF a.threw THEN Thr(a.err, conv, t0)
     ELSE IF a.eq THEN Ret(metadata(this).value, conv, Append(t0, Ev("native", v, NoRep, 0)))
     ELSE
       LET t1 == Append(t0, Ev("has", v, NoRep, 0))
       IN IF ~hasConverted(conv, v)
            THEN LET p == asV(this, conv, asPrevOf(v))
                 IN IF ~p.ok
                      THEN Thr(p.err, p.conv, t1 \o p.trace)
                      ELSE LET f == callFromPrev(v, p.val, metaVersionArg(this, v))
                               c2 == MapSet(p.conv, v, f.val)
                               t2 == t1 \o p.trace \o
                                     <<Ev("call", v, p.val, metaVersionArg(this, v))>>
                           IN IF ~f.ok
                                THEN Ret(p.val, MapSet(p.conv, v, p.val),
                                         t2 \o <<Ev("set", v, NoRep, 0),
                                                 Ev("get", v, NoRep, 0)>>)
                                ELSE Ret(c2[v], c2,
                                         t2 \o <<Ev("set", v, NoRep, 0),
                                                 Ev("get", v, NoRep, 0)>>)
            ELSE Ret(conv[v], conv, Append(t1, Ev("get", v, NoRep, 0)))

getVersion(this, conv, v) ==
  LET a == IF v # latest THEN assertVersion(this, v)
                         ELSE [threw |-> FALSE, eq |-> FALSE, err |-> NoErr]
      t0 == IF v # latest THEN <<Ev("assert", v, NoRep, version(this))>> ELSE <<>>
  IN IF a.threw THEN Thr(a.err, conv, t0)
     ELSE IF a.eq THEN Ret(metadata(this).value, conv, Append(t0, Ev("native", v, NoRep, 0)))
     ELSE
       LET t1 == Append(t0, Ev("has", v, NoRep, 0))
       IN IF ~hasConverted(conv, v)
            THEN LET p == asV(this, conv, asPrevOf(v))
                 IN IF ~p.ok
                      THEN Thr(p.err, p.conv, t1 \o p.trace)
                      ELSE LET f == callFromPrev(v, p.val, metaVersionArg(this, v))
                               c2 == MapSet(p.conv, v, f.val)
                               t2 == t1 \o p.trace \o
                                     <<Ev("call", v, p.val, metaVersionArg(this, v))>>
                           IN IF ~f.ok
                                THEN Thr(f.err, p.conv, t2)
                                ELSE Ret(c2[v], c2,
                                         t2 \o <<Ev("set", v, NoRep, 0),
                                                 Ev("get", v, NoRep, 0)>>)
            ELSE Ret(conv[v], conv, Append(t1, Ev("get", v, NoRep, 0)))

\* the accessors asV9, asV10 .. asV15
asV(this, conv, v) ==
  IF v = 9 THEN asV9(this, conv) ELSE getVersion(this, conv, v)

asLatest_numericKey(this, conv) == getVersion(this, conv, LATEST_VERSION)

asLatest(this, conv) == getVersion(this, conv, latest)

asCallsOnly_sharedCache(this, conv) ==
  LET l == asLatest(this, conv)
  IN IF ~l.ok
       THEN [res |-> l, created |-> FALSE, rec |-> NewMetadataVersioned(MagicNumber, Decoded(9))]
       ELSE [res |-> Ret(l.val, l.conv,
                         l.trace \o <<Ev("toCallsOnly", latest, l.val, 0),
                                      Ev("new", TO_CALLS_VERSION, NoRep, 0)>>),
             created |-> TRUE,
             rec |-> [NewMetadataVersioned(this.magicNumber,
                         createMetadataAll(toCallsOnly(l.val), TO_CALLS_VERSION))
                      EXCEPT !.converted = l.conv]]

\* asCallsOnly: the result carries the new instance in rec
asCallsOnly(this, conv) ==
  LET l == asLatest(this, conv)
  IN IF ~l.ok
       THEN [res |-> l, created |-> FALSE, rec |-> NewMetadataVersioned(MagicNumber, Decoded(9))]
       ELSE [res |-> Ret(l.val, l.conv,
                         l.trace \o <<Ev("toCallsOnly", latest, l.val, 0),
                                      Ev("new", TO_CALLS_VERSION, NoRep, 0)>>),
             created |-> TRUE,
             rec |-> NewMetadataVersioned(this.magicNumber,
                        createMetadataAll(toCallsOnly(l.val), TO_CALLS_VERSION))]

getUniqTypes_cachedOnly(reg, this, conv, throwError) ==
  LET input == IF hasConverted(conv, latest) THEN conv[latest] ELSE metadata(this).value
      u == utilGetUniqTypes(reg, input, throwError)
      t == <<Ev("getUniqTypes", latest, input, 0)>>
  IN IF u.ok THEN Ret(u.val, conv, t) ELSE Thr(u.err, conv, t)

getUniqTypes(reg, this, conv, throwError) ==
  LET l == asLatest(this, conv)
  IN IF ~l.ok THEN l
     ELSE LET u == utilGetUniqTypes(reg, l.val, throwError)
              t == Append(l.trace, Ev("getUniqTypes", latest, l.val, 0))
          IN IF u.ok THEN Ret(u.val, l.conv, t) ELSE Thr(u.err, l.conv, t)

toJSON_noForce(this, conv) ==
  Ret(metadata(this).value, conv, <<Ev("serialize", version(this), NoRep, 0)>>)

toJSON(this, conv) ==
  LET l == asLatest(this, conv)
  IN IF ~l.ok THEN l
     ELSE Ret(metadata(this).value, l.conv,
              Append(l.trace, Ev("serialize", version(this), NoRep, 0)))

(***************************************************************************)
(* State                                                                   *)
(***************************************************************************)
vars == <<records, invoked, registry, last>>

NoInvocations == [k \in MetaVersions |-> 0]

Calls(trace, k) ==
  Cardinality({i \in DOMAIN trace : trace[i].ev = "call" /\ trace[i].key = k})

Counted(inv, trace) == [k \in MetaVersions |-> inv[k] + Calls(trace, k)]

Init ==
  /\ \E s \in MetaAll :
       records = <<NewMetadataVersioned(MagicNumber, Decoded(s))>>
  /\ invoked = <<NoInvocations>>
  /\ \E u \in BOOLEAN : registry = [unresolved |-> u, throws |-> {}]
  /\ last = [rec |-> 0, op |-> "new", arg |-> 0, ok |-> TRUE, val |-> NoRep,
             err |-> NoErr, trace |-> <<>>, pre |-> <<>>, created |-> 0]

Finish_upgradeInPlace(r, op, arg, res) ==
  /\ \A k \in MetaVersions : Counted(invoked[r], res.trace)[k] <= MaxInvocations
  /\ records' = [records EXCEPT ![r].converted = res.conv,
                                ![r].metadata = IF op = "asV" /\ res.ok
                                                  THEN [index |-> arg, value |-> res.val]
                                                  ELSE @]
  /\ invoked' = [invoked EXCEPT ![r] = Counted(invoked[r], res.trace)]
  /\ last' = [rec |-> r, op |-> op, arg |-> arg, ok |-> res.ok, val |-> res.val,
              err |-> res.err, trace |-> res.trace, pre |-> records, created |-> 0]
  /\ UNCHANGED registry

\* a call on records[r] that returned or threw res
Finish(r, op, arg, res) ==
  /\ \A k \in MetaVersions : Counted(invoked[r], res.trace)[k] <= MaxInvocations
  /\ records' = [records EXCEPT ![r].converted = res.conv]
  /\ invoked' = [invoked EXCEPT ![r] = Counted(invoked[r], res.trace)]
  /\ last' = [rec |-> r, op |-> op, arg |-> arg, ok |-> res.ok, val |-> res.val,
              err |-> res.err, trace |-> res.trace, pre |-> records, created |-> 0]
  /\ UNCHANGED registry

AsV9(r) == Finish(r, "asV", 9, asV9(records[r], records[r].converted))

AsVn(r, v) == Finish(r, "asV", v, getVersion(records[r], records[r].converted, v))

AsLatest(r) == Finish(r, "asLatest", latest, asLatest(records[r], records[r].converted))

AsCallsOnly(r) ==
  LET c == asCallsOnly(records[r], records[r].converted)
      n == Len(records) + 1
  IN /\ Len(records) < MaxRecords
     /\ \A k \in MetaVersions : Counted(invoked[r], c.res.trace)[k] <= MaxInvocations
     /\ records' = IF c.created
                     THEN Append([records EXCEPT ![r].converted = c.res.conv], c.rec)
                     ELSE [records EXCEPT ![r].converted = c.res.conv]
     /\ invoked' = IF c.created
                     THEN Append([invoked EXCEPT ![r] = Counted(invoked[r], c.res.trace)],
                                 NoInvocations)
                     ELSE [invoked EXCEPT ![r] = Counted(invoked[r], c.res.trace)]
     /\ last' = [rec |-> r, op |-> "asCallsOnly", arg |-> latest, ok |-> c.res.ok,
                 val |-> c.res.val, err |-> c.res.err, trace |-> c.res.trace,
                 pre |-> records, created |-> IF c.created THEN n ELSE 0]
     /\ UNCHANGED registry

GetUniqTypes(r, throwError) ==
  Finish(r, "getUniqTypes", IF throwError THEN 1 ELSE 0,
         getUniqTypes(registry, records[r], records[r].converted, throwError))

ToJSON(r) == Finish(r, "toJSON", latest, toJSON(records[r], records[r].converted))

Next ==
  \E r \in DOMAIN records :
    \/ AsV9(r)
    \/ \E v \in MetaAll \ {9} : AsVn(r, v)
    \/ AsLatest(r)
    \/ AsCallsOnly(r)
    \/ \E throwError \in BOOLEAN : GetUniqTypes(r, throwError)
    \/ ToJSON(r)

Spec == Init /\ [][Next]_vars

\* the same instances on a registry on which one conversion raises
InitThrows ==
  /\ \E s \in MetaAll :
       records = <<NewMetadataVersioned(MagicNumber, Decoded(s))>>
  /\ invoked = <<NoInvocations>>
  /\ \E u \in BOOLEAN, k \in MetaVersions :
       registry = [unresolved |-> u, throws |-> {k}]
  /\ last = [rec |-> 0, op |-> "new", arg |-> 0, ok |-> TRUE, val |-> NoRep,
             err |-> NoErr, trace |-> <<>>, pre |-> <<>>, created |-> 0]

SpecThrows == InitThrows /\ [][Next]_vars

(***************************************************************************)
(* Properties                                                              *)
(***************************************************************************)
Recs == DOMAIN records

Conv(r) == records[r].converted

Native(r) == metadata(records[r]).value

Intrinsic(r) == version(records[r])

DowngradeError(s, v) == [kind |-> "Cannot convert metadata", from |-> s, to |-> v]

\* the record the last call was made on, as it was before the call
Before == last.pre[last.rec]

HasEv(trace, evs) == \E i \in DOMAIN trace : trace[i].ev \in evs

NumCalls(trace, keys) ==
  Cardinality({i \in DOMAIN trace : trace[i].ev = "call" /\ trace[i].key \in keys})

\* the steps s->s+1, .., (v-1)->v applied in ascending order to native
RECURSIVE Composed(_, _, _)
Composed(native, s, v) ==
  IF v <= s THEN native ELSE Upgraded(v, Composed(native, s, v - 1), s)

\* C1: a specific-version accessor asked for a version v below the intrinsic
\* version s fails with the downgrade error naming s and v, in every cache
\* state, and returns no representation.
C1_Monotonicity ==
  /\ \A r \in Recs : \A v \in MetaAll :
       v < Intrinsic(r) =>
         LET res == asV(records[r], Conv(r), v)
         IN /\ ~res.ok
            /\ res.val = NoRep
            /\ res.err = DowngradeError(Intrinsic(r), v)
  /\ (last.op = "asV" /\ last.arg < Intrinsic(last.rec)) =>
       /\ ~last.ok
       /\ last.val = NoRep
       /\ last.err = DowngradeError(Intrinsic(last.rec), last.arg)

C1_Witness ==
  /\ last.op = "asV"
  /\ last.arg < Intrinsic(last.rec)
  /\ ~last.ok
  /\ DOMAIN Before.converted # {}

\* C2: for s <= v <= 15 the accessor asV<v> succeeds and returns exactly the
\* v - s upgrade steps s->s+1, .., (v-1)->v composed in ascending order on the
\* native payload, whatever calls were made before.
C2_ChainCompleteness ==
  /\ \A r \in Recs : \A v \in MetaAll :
       v >= Intrinsic(r) =>
         LET res == asV(records[r], Conv(r), v)
         IN /\ res.ok
            /\ res.val = Composed(Native(r), Intrinsic(r), v)
            /\ res.val.ver = v
            /\ Len(res.val.hist) = Len(Native(r).hist) + (v - Intrinsic(r))
  /\ (last.op = "asV" /\ last.arg >= Intrinsic(last.rec)) =>
       /\ last.ok
       /\ last.val = Composed(Native(last.rec), Intrinsic(last.rec), last.arg)

C2_Witness ==
  /\ last.op = "asV"
  /\ last.ok
  /\ last.arg >= Intrinsic(last.rec) + 3
  /\ DOMAIN Before.converted # {}
  /\ last.arg \notin DOMAIN Before.converted

\* C3: every conversion is called at most once per (record, target), and a
\* call of asV<v> (v > s) or asLatest that finds its target cached returns the
\* cached object, calls no conversion and leaves the cache unchanged.
C3_Memoization ==
  /\ \A r \in Recs : \A k \in MetaVersions : invoked[r][k] <= 1
  /\ \A r \in Recs : \A k \in DOMAIN Conv(r) :
       LET res == getVersion(records[r], Conv(r), k)
       IN res.ok /\ res.val = Conv(r)[k] /\ res.conv = Conv(r)
          /\ ~HasEv(res.trace, {"call", "set"})
  /\ (last.op \in {"asV", "asLatest"} /\ last.arg \in DOMAIN Before.converted) =>
       /\ last.ok
       /\ last.val = Before.converted[last.arg]
       /\ Conv(last.rec) = Before.converted
       /\ ~HasEv(last.trace, {"call", "set"})

C3_Witness ==
  /\ last.op \in {"asV", "asLatest"}
  /\ last.arg \in DOMAIN Before.converted
  /\ last.ok
  /\ \E k \in MetaVersions : invoked[last.rec][k] = 1
\* C4 as stated: asLatest on an empty cache calls exactly 15 - s conversion
\* functions in total (none for s = 15).
C4_AsStated ==
  (last.op = "asLatest" /\ DOMAIN Before.converted = {}) =>
    NumCalls(last.trace, MetaVersions) = 15 - Intrinsic(last.rec)

\* C4 (amended): asLatest on an empty cache calls exactly 15 - s
\* version-to-version upgrade steps (six for s = 9, one for s = 14, none for
\* s = 15) and then toLatest exactly once: 16 - s conversion functions.
C4_StepCount ==
  /\ \A r \in Recs :
       LET res == asLatest(records[r], EmptyMap)
       IN /\ res.ok
          /\ NumCalls(res.trace, MetaAll) = 15 - Intrinsic(r)
          /\ \A k \in MetaAll \ {9} :
               NumCalls(res.trace, {k}) = IF k > Intrinsic(r) THEN 1 ELSE 0
          /\ NumCalls(res.trace, {latest}) = 1
          /\ NumCalls(res.trace, MetaVersions) = 16 - Intrinsic(r)
  /\ (last.op = "asLatest" /\ DOMAIN Before.converted = {}) =>
       /\ NumCalls(last.trace, MetaAll) = 15 - Intrinsic(last.rec)
       /\ NumCalls(last.trace, {latest}) = 1
       /\ \A k \in MetaVersions :
            invoked[last.rec][k] = NumCalls(last.trace, {k})

C4_Witness ==
  /\ last.op = "asLatest"
  /\ DOMAIN Before.converted = {}
  /\ Intrinsic(last.rec) = 9
  /\ NumCalls(last.trace, MetaAll) = 6

C6_OriginalContext ==
  /\ \A i \in DOMAIN last.trace :
       last.trace[i].ev = "call" => last.trace[i].ctx = Intrinsic(last.rec)
  /\ \A r \in Recs : \A k \in MetaVersions :
       LET res == getVersion(records[r], EmptyMap, k)
       IN \A i \in DOMAIN res.trace :
            res.trace[i].ev = "call" => res.trace[i].ctx = Intrinsic(r)
  /\ \A r \in Recs : \A k \in DOMAIN Conv(r) :
       \A i \in DOMAIN Conv(r)[k].hist :
         i > Len(Native(r).hist) => Conv(r)[k].hist[i].ctx = Intrinsic(r)

C6_Witness ==
  /\ last.op = "asLatest"
  /\ Intrinsic(last.rec) = 12
  /\ NumCalls(last.trace, MetaVersions) = 4
  /\ \E i \in DOMAIN last.trace :
       /\ last.trace[i].ev = "call"
       /\ last.trace[i].input.ver = 14
       /\ last.trace[i].ctx = 12

\* C7: asV<s>, s the intrinsic version, returns the native payload: it calls
\* no conversion, stores nothing in the cache and reads nothing from it, in
\* every cache state.
C7_IdentityAtSource ==
  /\ \A r \in Recs :
       LET res == asV(records[r], Conv(r), Intrinsic(r))
       IN /\ res.ok
          /\ res.val = Native(r)
          /\ res.conv = Conv(r)
          /\ ~HasEv(res.trace, {"call", "set", "has", "get"})
  /\ (last.op = "asV" /\ last.arg = Intrinsic(last.rec)) =>
       /\ last.ok
       /\ last.val = Native(last.rec)
       /\ Conv(last.rec) = Before.converted
       /\ ~HasEv(last.trace, {"call", "set", "has", "get"})

C7_Witness ==
  /\ last.op = "asV"
  /\ last.arg = Intrinsic(last.rec)
  /\ last.arg > 9
  /\ last.ok
  /\ DOMAIN Before.converted # {}

\* C8: asCallsOnly succeeds on every record, whatever its intrinsic version
\* and cache, the record it returns has version 14, and asLatest on that
\* record succeeds.
C8_CallsOnlyCompatibility ==
  /\ \A r \in Recs :
       LET c == asCallsOnly(records[r], Conv(r))
       IN /\ c.created
          /\ c.res.ok
          /\ version(c.rec) = 14
          /\ asLatest(c.rec, c.rec.converted).ok
  /\ (last.op = "asCallsOnly") =>
       /\ last.ok
       /\ last.created \in Recs
       /\ Intrinsic(last.created) = 14
  /\ \A r \in Recs \ {1} :
       /\ Intrinsic(r) = 14
       /\ asLatest(records[r], Conv(r)).ok
  /\ (last.op = "asLatest" /\ last.rec > 1) => last.ok

C8_Witness ==
  /\ last.op = "asLatest"
  /\ last.rec > 1
  /\ last.ok
  /\ Intrinsic(1) = 9
  /\ Intrinsic(last.rec) = 14

\* C9: the record asCallsOnly returns starts with an empty cache of its own,
\* rejects every version below its pinned version 14 (also one the source
\* could serve), and calls on one record change no other record.
C9_CallsOnlyIndependence ==
  /\ \A r \in Recs :
       asCallsOnly(records[r], Conv(r)).rec.converted = EmptyMap
  /\ (last.op = "asCallsOnly" /\ last.created # 0) =>
       /\ Conv(last.created) = EmptyMap
       /\ invoked[last.created] = NoInvocations
       /\ last.created \notin DOMAIN last.pre
  /\ \A r \in Recs \ {1} : \A v \in MetaAll :
       v < 14 =>
         LET res == asV(records[r], Conv(r), v)
         IN ~res.ok /\ res.err = DowngradeError(14, v) /\ res.conv = Conv(r)
  /\ (last.rec \in Recs) =>
       \A q \in DOMAIN last.pre : q # last.rec => records[q] = last.pre[q]
  /\ (last.rec \in Recs) =>
       /\ version(Before) = Intrinsic(last.rec)
       /\ \A q \in DOMAIN last.pre : version(last.pre[q]) = Intrinsic(q)

C9_Witness ==
  /\ last.op = "asV"
  /\ last.rec > 1
  /\ ~last.ok
  /\ last.arg >= Intrinsic(1)
  /\ last.arg < 14
  /\ DOMAIN Conv(1) # {}
  /\ DOMAIN Before.converted # {}

\* C10: toJSON resolves asLatest before it serializes: the serialization is
\* the last step of the call, every conversion needed for latest has run
\* before it, and the cache holds 'latest' when it starts and afterwards.
C10_CanonicalForcesLatest ==
  /\ \A r \in Recs :
       LET res == toJSON(records[r], Conv(r))
           n == Len(res.trace)
       IN /\ res.ok
          /\ latest \in DOMAIN res.conv
          /\ n >= 1
          /\ res.trace[n].ev = "serialize"
          /\ \A i \in 1..(n - 1) : res.trace[i].ev # "serialize"
          /\ \A k \in MetaVersions :
               (k = latest \/ k > Intrinsic(r)) =>
                 (k \in DOMAIN Conv(r) \/ NumCalls(res.trace, {k}) = 1)
  /\ (last.op = "toJSON") =>
       LET n == Len(last.trace)
       IN /\ last.ok
          /\ latest \in DOMAIN Conv(last.rec)
          /\ n >= 1
          /\ last.trace[n].ev = "serialize"
          /\ \A i \in 1..(n - 1) : last.trace[i].ev # "serialize"
          /\ \/ latest \in DOMAIN Before.converted
             \/ \E i \in 1..(n - 1) :
                  last.trace[i].ev = "set" /\ last.trace[i].key = latest

C10_Witness ==
  /\ last.op = "toJSON"
  /\ last.ok
  /\ Intrinsic(last.rec) = 9
  /\ latest \notin DOMAIN Before.converted
  /\ NumCalls(last.trace, MetaVersions) >= 1
\* C11: no accessor call changes the intrinsic version, the magic number or
\* the native payload of any record; a call changes only the cache of the
\* record it is made on.
C11_PayloadImmutability ==
  /\ (last.rec \in Recs) =>
       \A q \in DOMAIN last.pre :
         /\ records[q].magicNumber = last.pre[q].magicNumber
         /\ records[q].metadata = last.pre[q].metadata
         /\ Intrinsic(q) = version(last.pre[q])
  /\ \E s \in MetaAll : records[1].metadata = Decoded(s)
  /\ \A r \in Recs :
       /\ records[r].magicNumber = MagicNumber
       /\ Native(r).ver = Intrinsic(r)
       /\ r > 1 => Intrinsic(r) = TO_CALLS_VERSION

C11_Witness ==
  /\ last.op \in {"asV", "toJSON"}
  /\ last.ok
  /\ Intrinsic(last.rec) = 9
  /\ Conv(last.rec) # Before.converted
  /\ DOMAIN Before.converted # {}
  /\ records[last.rec].metadata = Before.metadata

\* C12: the cache is empty at construction and only grows: a key once
\* present stays, its value is never overwritten, and a key is set at most
\* once, by the first call that needs it.
C12_CacheLifecycle ==
  /\ (last.op = "new") => (Len(records) = 1 /\ Conv(1) = EmptyMap)
  /\ (last.op = "asCallsOnly" /\ last.created # 0) => Conv(last.created) = EmptyMap
  /\ (last.rec \in Recs) =>
       \A q \in DOMAIN last.pre : \A k \in DOMAIN last.pre[q].converted :
         /\ k \in DOMAIN Conv(q)
         /\ Conv(q)[k] = last.pre[q].converted[k]
  /\ \A i \in DOMAIN last.trace :
       last.trace[i].ev = "set" =>
         /\ last.trace[i].key \notin DOMAIN Before.converted
         /\ last.trace[i].key \in DOMAIN Conv(last.rec)
         /\ \A j \in DOMAIN last.trace :
              (j # i /\ last.trace[j].ev = "set") => last.trace[j].key # last.trace[i].key

C12_Witness ==
  /\ last.op = "asV"
  /\ last.ok
  /\ DOMAIN Before.converted # {}
  /\ DOMAIN Conv(last.rec) # DOMAIN Before.converted
  /\ DOMAIN Before.converted \subseteq DOMAIN Conv(last.rec)

\* C13: every key of a record's cache is 'latest' or a version v with
\* s < v <= 15, s the record's intrinsic version; nothing is stored for the
\* intrinsic version or a lower one.
C13_CacheKeyDomain ==
  /\ \A r \in Recs : \A k \in DOMAIN Conv(r) :
       k = latest \/ (k \in MetaAll /\ Intrinsic(r) < k /\ k <= 15)
  /\ \A i \in DOMAIN last.trace :
       last.trace[i].ev = "set" =>
         \/ last.trace[i].key = latest
         \/ (Intrinsic(last.rec) < last.trace[i].key /\ last.trace[i].key <= 15)

C13_Witness ==
  /\ Intrinsic(1) = 12
  /\ DOMAIN Conv(1) = {13, 14, 15, latest}
  /\ last.op = "asV"
  /\ last.rec = 1
  /\ last.arg <= 12

\* C14: asLatest stores its result under 'latest', the key it asks the
\* cache for, and never under 15; asV15 neither reads nor writes 'latest',
\* and asV15 alone leaves 'latest' absent.
C14_SeparateLatestSlot ==
  /\ (last.op = "asLatest") =>
       /\ last.ok
       /\ latest \in DOMAIN Conv(last.rec)
       /\ Conv(last.rec)[latest] = last.val
       /\ last.trace[1] = Ev("has", latest, NoRep, 0)
       /\ last.trace[Len(last.trace)] = Ev("get", latest, NoRep, 0)
       /\ \A i \in DOMAIN last.trace :
            (last.trace[i].ev = "call" /\ last.trace[i].key = latest) =>
              last.trace[i + 1] = Ev("set", latest, NoRep, 0)
       /\ Intrinsic(last.rec) = 15 => 15 \notin DOMAIN Conv(last.rec)
  /\ \A i \in DOMAIN last.trace :
       last.trace[i].ev = "call" =>
         (i < Len(last.trace) /\ last.trace[i + 1].ev = "set"
            /\ last.trace[i + 1].key = last.trace[i].key)
  /\ (last.op = "asV") =>
       /\ \A i \in DOMAIN last.trace : last.trace[i].key # latest
       /\ (latest \in DOMAIN Conv(last.rec)) = (latest \in DOMAIN Before.converted)
  /\ \A r \in Recs :
       /\ latest \notin DOMAIN asV(records[r], EmptyMap, 15).conv
       /\ latest \in DOMAIN asLatest(records[r], EmptyMap).conv
       /\ (15 \in DOMAIN asLatest(records[r], EmptyMap).conv) = (Intrinsic(r) < 15)

C14_Witness ==
  /\ last.op = "asV"
  /\ last.arg = 15
  /\ last.ok
  /\ Intrinsic(last.rec) < 15
  /\ 15 \in DOMAIN Conv(last.rec)
  /\ latest \notin DOMAIN Conv(last.rec)

\* C15: getUniqTypes(false) returns the same identifiers on every call on a
\* record, whatever calls were made before or in between: the result is that
\* of the memoized latest representation.
C15_ExtractionDeterminism ==
  /\ \A r \in Recs :
       LET now == getUniqTypes(registry, records[r], Conv(r), FALSE)
           first == getUniqTypes(registry, records[r], EmptyMap, FALSE)
           again == getUniqTypes(registry, records[r], now.conv, FALSE)
       IN /\ now.ok /\ first.ok /\ again.ok
          /\ now.val = first.val
          /\ again.val = now.val
          /\ again.conv = now.conv
          /\ latest \in DOMAIN now.conv
          /\ now.val = now.conv[latest]
  /\ (last.op = "getUniqTypes" /\ last.arg = 0) =>
       /\ last.ok
       /\ latest \in DOMAIN Conv(last.rec)
       /\ last.val = Conv(last.rec)[latest]
       /\ last.val = getUniqTypes(registry, Before, EmptyMap, FALSE).val
       /\ last.val = getUniqTypes(registry, records[last.rec], Conv(last.rec), FALSE).val

C15_Witness ==
  /\ last.op = "getUniqTypes"
  /\ last.arg = 0
  /\ last.ok
  /\ Intrinsic(last.rec) = 9
  /\ latest \in DOMAIN Before.converted
  /\ NumCalls(last.trace, MetaVersions) = 0
  /\ registry.unresolved
NumAsserts(trace) ==
  Cardinality({i \in DOMAIN trace : trace[i].ev = "assert"})

\* C16: a specific-version accessor evaluates the assertion first, against
\* the intrinsic version of the record, also when its target is cached; a
\* call rejected as a downgrade does nothing else: no conversion, no access
\* to the cache.
C16_AssertBeforeCache ==
  /\ (last.op = "asV") =>
       /\ Len(last.trace) >= 1
       /\ last.trace[1] = Ev("assert", last.arg, NoRep, Intrinsic(last.rec))
       /\ last.ok = (last.arg >= Intrinsic(last.rec))
       /\ ~last.ok =>
            /\ last.trace = <<Ev("assert", last.arg, NoRep, Intrinsic(last.rec))>>
            /\ Conv(last.rec) = Before.converted
            /\ records = last.pre
            /\ last.err = DowngradeError(Intrinsic(last.rec), last.arg)
  /\ \A i \in DOMAIN last.trace :
       (last.trace[i].ev \in {"has", "get", "set", "call"} /\ last.trace[i].key # latest) =>
         \E j \in 1..(i - 1) :
           last.trace[j] = Ev("assert", last.trace[i].key, NoRep, Intrinsic(last.rec))
  /\ \A r \in Recs : \A v \in MetaAll :
       LET res == asV(records[r], Conv(r), v)
       IN /\ res.trace[1] = Ev("assert", v, NoRep, Intrinsic(r))
          /\ v < Intrinsic(r) => (Len(res.trace) = 1 /\ res.conv = Conv(r) /\ ~res.ok)

C16_Witness ==
  /\ last.op = "asV"
  /\ last.arg \in DOMAIN Before.converted
  /\ last.trace[1].ev = "assert"
  /\ last.trace[2].ev = "has"
  /\ last.ok

\* C17: the step (v-1)->v is only called with the representation at version
\* v-1 (the native payload when v-1 = s, the cached entry for v-1 otherwise),
\* toLatest only with the version-15 representation; the steps of a call run
\* in ascending order with none skipped.
C17_StepInputMatching ==
  /\ \A i \in DOMAIN last.trace :
       last.trace[i].ev = "call" =>
         LET k == last.trace[i].key
             prev == IF k = latest THEN 15 ELSE k - 1
             input == last.trace[i].input
         IN /\ input.ver = prev
            /\ prev >= Intrinsic(last.rec)
            /\ IF prev = Intrinsic(last.rec)
                 THEN input = Native(last.rec)
                 ELSE prev \in DOMAIN Conv(last.rec) /\ input = Conv(last.rec)[prev]
            /\ (k # latest /\ prev > Intrinsic(last.rec)) =>
                 \/ prev \in DOMAIN Before.converted
                 \/ \E j \in 1..(i - 1) :
                      last.trace[j].ev = "call" /\ last.trace[j].key = prev
            /\ \A j \in 1..(i - 1) :
                 last.trace[j].ev = "call" =>
                   (last.trace[j].key # latest /\ (k = latest \/ last.trace[j].key < k))
  /\ \A r \in Recs : \A k \in DOMAIN Conv(r) :
       k # latest =>
         LET val == Conv(r)[k]
             n == Len(val.hist)
         IN /\ val.ver = k
            /\ n >= 1
            /\ val.hist[n].to = k
            /\ val.hist[n].from = k - 1
  /\ \A r \in Recs : latest \in DOMAIN Conv(r) => Conv(r)[latest].ver = 15

C17_Witness ==
  /\ last.op = "asLatest"
  /\ Intrinsic(last.rec) = 13
  /\ DOMAIN Before.converted = {14}
  /\ NumCalls(last.trace, {15}) = 1
  /\ NumCalls(last.trace, {latest}) = 1
  /\ \E i \in DOMAIN last.trace :
       /\ last.trace[i].ev = "call"
       /\ last.trace[i].key = 15
       /\ last.trace[i].input = Before.converted[14]

FailedAt(r, v, trace, conv, pre) ==
  /\ v \in registry.throws
  /\ Len(trace) >= 1
  /\ trace[Len(trace)].ev = "call"
  /\ trace[Len(trace)].key = v
  /\ NumCalls(trace, {v}) = 1
  /\ v \notin DOMAIN conv
  /\ latest \notin DOMAIN conv
  /\ v # latest => \A k \in DOMAIN conv : k < v
  /\ \A k \in MetaAll :
       (Intrinsic(r) < k /\ (v = latest \/ k < v)) =>
         (k \in DOMAIN conv /\ conv[k] = Composed(Native(r), Intrinsic(r), k))
  /\ \A k \in DOMAIN pre : k \in DOMAIN conv /\ conv[k] = pre[k]

\* C19: when the conversion to v raises during asV<w>, w >= v, or during
\* asLatest, the call fails with that error after a single attempt, nothing
\* is stored for v, for a higher target or for 'latest', and the entries for
\* the versions below v are cached.
C19_StepFailure ==
  /\ (last.rec \in Recs /\ ~last.ok /\ last.err.kind = "conversion failed") =>
       FailedAt(last.rec, last.err.to, last.trace, Conv(last.rec), Before.converted)
  /\ \A r \in Recs : \A w \in MetaVersions : \A v \in registry.throws :
       LET res == getVersion(records[r], Conv(r), w)
           needed == IF v = latest THEN w = latest
                     ELSE v > Intrinsic(r) /\ (w = latest \/ w >= v)
       IN /\ needed =>
               /\ ~res.ok
               /\ res.err.kind = "conversion failed"
               /\ res.err.to = v
               /\ FailedAt(r, v, res.trace, res.conv, Conv(r))
          /\ (~needed /\ (w = latest \/ w >= Intrinsic(r))) => res.ok
  /\ (last.op \in {"asLatest", "asCallsOnly", "getUniqTypes", "toJSON"}
        /\ \E v \in registry.throws : v = latest \/ v > Intrinsic(last.rec)) =>
       (~last.ok /\ last.err.kind = "conversion failed" /\ last.created = 0
          /\ ~HasEv(last.trace, {"serialize", "toCallsOnly", "getUniqTypes", "new"}))

C19_Witness ==
  /\ last.op = "asLatest"
  /\ ~last.ok
  /\ last.err.kind = "conversion failed"
  /\ last.err.to = 13
  /\ Intrinsic(last.rec) = 10
  /\ DOMAIN Before.converted = {}
  /\ DOMAIN Conv(last.rec) = {11, 12}

\* C20: the cache is prefix-closed: with a numeric key v it holds every key
\* u, s < u < v, and with 'latest' it holds every numeric key u, s < u <= 15.
C20_PrefixClosedCache ==
  \A r \in Recs : \A k \in DOMAIN Conv(r) :
    \A u \in MetaAll :
      (Intrinsic(r) < u /\ (IF k = latest THEN u <= 15 ELSE u < k)) =>
        u \in DOMAIN Conv(r)

C20_Witness ==
  /\ Intrinsic(1) = 9
  /\ DOMAIN Conv(1) = {10, 11, 12}
  /\ last.op = "asV"
  /\ last.arg = 12
  /\ last.rec = 1
  /\ DOMAIN Before.converted = {}

====
